---- MODULE Spec2Model ----
(***************************************************************************)
(* Model of the Notepad++ updater, src/src/npp_update.py.                  *)
(*                                                                         *)
(* Python strings are modelled as sequences of tokens: a version string    *)
(* is a sequence of one-character tokens ("8.6" is <<"8", ".", "6">>), a   *)
(* file or asset name is a sequence of longer tokens, so that              *)
(* concatenation is \o and str.endswith / str.lstrip / "in" are computed   *)
(* on the sequence.  None is the record None, any other value v is         *)
(* Some(v).                                                                *)
(*                                                                         *)
(* Library behaviour assumed: packaging >= 22 (parse raises InvalidVersion *)
(* on a string that is not a PEP 440 version) and requests >= 2.27         *)
(* (Response.json raises requests.exceptions.JSONDecodeError, which is     *)
(* both a RequestException and a ValueError).                              *)
(***************************************************************************)
EXTENDS Integers, Sequences, FiniteSets, TLC

VARIABLES
    pc,               \* position of main(): the stage about to run, or "Done"
    status,           \* "running", "returned" (main returned) or "raised"
    exit_code,        \* value returned by main(), -1 while none
    exception,        \* name of the exception that left main(), "" if none
    current_version,  \* main's local current_version
    arch,             \* main's local arch
    latest_version,   \* main's local latest_version
    result,           \* main's local result (compare_version)
    assets,           \* the asset list get_installer read from the feed
    download_url,     \* get_installer's local download_url
    installer,        \* main's local installer (path returned by get_installer)
    succeed,          \* main's local succeed (run_installer)
    files,            \* paths that exist in the working directory
    feed1,            \* how the feed request of get_latest_version ended
    feed2,            \* how the feed request of get_installer ended
    proc,             \* how the installer process ended
    calls,            \* number of calls made so far, per external call site
    va, vb, vres,     \* compare_version called on its own: arguments, outcome
    registry,         \* get_current_version called on its own: the registry
    feed_release,     \* number of the release the feed currently publishes
    release1,         \* release that answered get_latest_version, 0 if none
    release2,         \* release that answered get_installer, 0 if none
    run_pc,           \* two runs side by side: position of each run
    artifact,         \* two runs side by side: the file npp_installer_{arch}.exe
    events            \* two runs side by side: what each run did to the file

vars == <<pc, status, exit_code, exception, current_version, arch,
          latest_version, result, assets, download_url, installer, succeed,
          files, feed1, feed2, proc, calls, va, vb, vres, registry,
          feed_release, release1, release2, run_pc, artifact, events>>

\* the variables of the two runs side by side
two_vars == <<run_pc, artifact, events>>

\* the variables of the functions called on their own
own_vars == <<va, vb, vres, registry>>

-----------------------------------------------------------------------------
(* Python values *)

None == [tag |-> "None"]
Some(v) == [tag |-> "Some", val |-> v]

\* Python truthiness of an Optional[str]: None and "" are falsy
Falsy(o) == o = None \/ o.val = <<>>

Return(v) == [kind |-> "return", val |-> v]
Raise(e) == [kind |-> "raise", exc |-> e]

\* all sequences over chars of length at most n
RECURSIVE StringsOver(_, _)
StringsOver(chars, n) ==
    IF n = 0 THEN {<<>>}
    ELSE LET shorter == StringsOver(chars, n - 1)
         IN  shorter \cup {Append(s, c) : s \in shorter, c \in chars}

\* str.endswith
EndsWith(s, suffix) ==
    /\ Len(s) >= Len(suffix)
    /\ SubSeq(s, Len(s) - Len(suffix) + 1, Len(s)) = suffix

\* the "in" operator for a one-token needle
Contains(s, tok) == \E i \in 1..Len(s) : s[i] = tok

\* str.lstrip(chars): drops every leading character that is in chars
RECURSIVE lstrip(_, _)
lstrip(s, chars) ==
    IF s # <<>> /\ Head(s) \in chars THEN lstrip(Tail(s), chars) ELSE s

-----------------------------------------------------------------------------
(* packaging.version.parse and the ordering of Version, as far as strings  *)
(* over digits, ".", "v" and "x" exercise them                             *)

Digits == {"0", "1", "2", "3", "4", "5", "6", "7", "8", "9"}

DigitVal ==
    [c \in Digits |->
        CASE c = "0" -> 0 [] c = "1" -> 1 [] c = "2" -> 2 [] c = "3" -> 3
          [] c = "4" -> 4 [] c = "5" -> 5 [] c = "6" -> 6 [] c = "7" -> 7
          [] c = "8" -> 8 [] c = "9" -> 9]

\* int(s) for a non-empty string of digits
RECURSIVE ParseInt(_)
ParseInt(s) ==
    IF s = <<>> THEN 0
    ELSE 10 * ParseInt(SubSeq(s, 1, Len(s) - 1)) + DigitVal[s[Len(s)]]

\* s.split(".")
RECURSIVE Split(_)
Split(s) ==
    IF \A i \in 1..Len(s) : s[i] # "."
    THEN <<s>>
    ELSE LET i == CHOOSE k \in 1..Len(s) :
                      s[k] = "." /\ \A j \in 1..(k - 1) : s[j] # "."
         IN  <<SubSeq(s, 1, i - 1)>> \o Split(SubSeq(s, i + 1, Len(s)))

IsNumber(s) == s # <<>> /\ \A i \in 1..Len(s) : s[i] \in Digits

\* VERSION_PATTERN: an optional single leading "v", then the release segment
\* [0-9]+(\.[0-9]+)*; anything else raises InvalidVersion
parse(s) ==
    LET body == IF s # <<>> /\ Head(s) = "v" THEN Tail(s) ELSE s
        parts == Split(body)
    IN  IF \A i \in 1..Len(parts) : IsNumber(parts[i])
        THEN Return([i \in 1..Len(parts) |-> ParseInt(parts[i])])
        ELSE Raise("InvalidVersion")

\* a variant of the comparison key that keeps trailing zeros
cmpkey_keep_zeros(release) == release

\* packaging.version._cmpkey: the release with its trailing zeros dropped
RECURSIVE cmpkey(_)
cmpkey(release) ==
    IF release # <<>> /\ release[Len(release)] = 0
    THEN cmpkey(SubSeq(release, 1, Len(release) - 1))
    ELSE release

\* Python's ordering of tuples of ints: t1 < t2
RECURSIVE TupleLess(_, _)
TupleLess(t1, t2) ==
    IF t1 = <<>> THEN t2 # <<>>
    ELSE IF t2 = <<>> THEN FALSE
    ELSE IF Head(t1) # Head(t2) THEN Head(t1) < Head(t2)
    ELSE TupleLess(Tail(t1), Tail(t2))

\* compare_version: Return(-1 | 0 | 1), or Raise("InvalidVersion") from parse
compare_version(cur, latest) ==
    LET v1 == parse(cur)
        v2 == parse(latest)
    IN  IF v1.kind = "raise" THEN v1
        ELSE IF v2.kind = "raise" THEN v2
        ELSE IF TupleLess(cmpkey(v1.val), cmpkey(v2.val)) THEN Return(-1)
        ELSE IF TupleLess(cmpkey(v2.val), cmpkey(v1.val)) THEN Return(1)
        ELSE Return(0)

-----------------------------------------------------------------------------
(* Exceptions: the classes the except clauses of the program name *)

\* requests.exceptions.RequestException and its subclasses
IsRequestException(e) ==
    e \in {"ConnectionError", "Timeout", "HTTPError", "JSONDecodeError"}

\* ValueError and its subclasses
IsValueError(e) == e \in {"JSONDecodeError", "InvalidVersion"}

\* OSError (= IOError = WindowsError) and its subclasses; RequestException
\* derives from IOError
IsOSError(e) ==
    e \in {"OSError", "PermissionError", "FileNotFoundError"}
        \/ IsRequestException(e)

-----------------------------------------------------------------------------
(* The registry read by get_arch and get_current_version *)

\* longest asset list a feed document carries
MaxAssets == 2

\* longest version string compare_version is called with on its own
MaxLen == 5

\* number of releases the feed publishes during a run
MaxReleases == 2

DisplayNames ==
    { <<"Notepad++ (", "64-bit ", "x64", ")">>,
      <<"Notepad++ (", "32-bit ", "x86", ")">> }

\* "", "7.1.2", "8.6", "8.6.0", "8.9.4", "8.x"
DisplayVersions ==
    { <<>>,
      <<"7", ".", "1", ".", "2">>,
      <<"8", ".", "6">>,
      <<"8", ".", "6", ".", "0">>,
      <<"8", ".", "9", ".", "4">>,
      <<"8", ".", "x">> }

Optional(S) == {None} \cup {Some(x) : x \in S}

\* a key under HKLM: None if OpenKey fails, else its two values, each None if
\* QueryValueEx fails
RegistryKeys ==
    {None} \cup
    {Some([DisplayName |-> n, DisplayVersion |-> v]) :
        n \in Optional(DisplayNames), v \in Optional(DisplayVersions)}

\* the keys at npp_reg_paths[1] (WOW6432Node) and npp_reg_paths[2]
Registries == [1..2 -> RegistryKeys]

\* get_arch trying npp_reg_paths from the last to the first
get_arch_last_first(reg) ==
    LET found == {i \in 1..2 : reg[i] # None /\ reg[i].val.DisplayName # None}
    IN  IF found = {} THEN [arch |-> None, path |-> 0]
        ELSE LET i == CHOOSE k \in found : \A j \in found : k >= j
                 display_name == reg[i].val.DisplayName.val
             IN  [arch |-> Some(IF Contains(display_name, "x64")
                                THEN <<"x64">> ELSE <<"x86">>),
                  path |-> i]

\* get_arch: [arch, path], path the index into npp_reg_paths, 0 for ""
get_arch(reg) ==
    LET found == {i \in 1..2 : reg[i] # None /\ reg[i].val.DisplayName # None}
    IN  IF found = {} THEN [arch |-> None, path |-> 0]
        ELSE LET i == CHOOSE k \in found : \A j \in found : k <= j
                 display_name == reg[i].val.DisplayName.val
             IN  [arch |-> Some(IF Contains(display_name, "x64")
                                THEN <<"x64">> ELSE <<"x86">>),
                  path |-> i]

\* get_current_version: <<version, arch>>
get_current_version(reg) ==
    LET a == get_arch(reg)
    IN  IF Falsy(a.arch) THEN <<None, None>>
        ELSE IF reg[a.path] = None \/ reg[a.path].val.DisplayVersion = None
        THEN <<None, None>>
        ELSE <<reg[a.path].val.DisplayVersion, a.arch>>

-----------------------------------------------------------------------------
(* The release feed *)

\* "v8.6", "v8.6.0", "v8.5", "v8.10", "v", "v8.x"
Tags ==
    { <<"v", "8", ".", "6">>,
      <<"v", "8", ".", "6", ".", "0">>,
      <<"v", "8", ".", "5">>,
      <<"v", "8", ".", "1", "0">>,
      <<"v">>,
      <<"v", "8", ".", "x">> }

AssetNames ==
    { <<"npp.8.6.", "Installer", ".exe">>,
      <<"npp.8.6.", "Installer", ".", "x64", ".exe">>,
      <<"npp.8.6.", "Installer", ".", "arm64", ".exe">> }

Urls == { <<>>, <<"https://a">>, <<"https://b">> }

Assets == [name : AssetNames, browser_download_url : Urls]

AssetLists == UNION {[1..n -> Assets] : n \in 0..MaxAssets}

\* what requests.get(GITHUB_RELEASES_URL), raise_for_status and json() end in:
\* an exception, or the parsed document; a key of the document is None when
\* the document does not have it
FeedErrors == {"ConnectionError", "Timeout", "HTTPError", "JSONDecodeError"}

FeedResponses ==
    {[kind |-> "error", exc |-> e] : e \in FeedErrors} \cup
    {[kind |-> "ok", tag_name |-> t, assets |-> a] :
        t \in Optional(Tags), a \in Optional(AssetLists)}

\* get_latest_version with only the HTTP status handled
get_latest_version_http_only(res) ==
    IF res.kind = "error"
    THEN IF res.exc = "HTTPError" THEN Return(None) ELSE Raise(res.exc)
    ELSE IF res.tag_name = None THEN Raise("KeyError")
    ELSE Return(Some(lstrip(res.tag_name.val, {"v"})))

\* get_latest_version, given the outcome of its request
get_latest_version(res) ==
    LET body == IF res.kind = "error" THEN Raise(res.exc)
                ELSE IF res.tag_name = None THEN Raise("KeyError")
                ELSE Return(Some(lstrip(res.tag_name.val, {"v"})))
    IN  IF body.kind = "raise"
           /\ (IsRequestException(body.exc) \/ IsValueError(body.exc))
        THEN Return(None)
        ELSE body

\* the test of the selection loop with the architecture test left out
Matches_any_exe(name, a) ==
    EndsWith(name, <<".exe">>)

\* the test of the selection loop of get_installer
Matches(name, a) ==
    \/ EndsWith(name, a \o <<".exe">>) /\ a = <<"x64">>
    \/ EndsWith(name, <<"Installer", ".exe">>) /\ a = <<"x86">>

\* the selection loop keeping the last match
select_last(asset_list, a) ==
    LET hits == {i \in 1..Len(asset_list) : Matches(asset_list[i].name, a)}
    IN  IF hits = {} THEN None
        ELSE Some(asset_list[CHOOSE k \in hits : \A j \in hits : k >= j]
                      .browser_download_url)

\* the selection loop of get_installer: download_url after the loop
select(asset_list, a) ==
    LET hits == {i \in 1..Len(asset_list) : Matches(asset_list[i].name, a)}
    IN  IF hits = {} THEN None
        ELSE Some(asset_list[CHOOSE k \in hits : \A j \in hits : k <= j]
                      .browser_download_url)

\* get_installer up to the download: Return(None), Raise(e), or
\* [kind |-> "continue"] when a download_url was chosen
get_installer_select(res, a) ==
    LET body == IF res.kind = "error" THEN Raise(res.exc)
                ELSE IF res.assets = None THEN Raise("KeyError")
                ELSE IF Falsy(select(res.assets.val, a)) THEN Return(None)
                ELSE [kind |-> "continue"]
    IN  IF body.kind = "raise" /\ (IsRequestException(body.exc) \/ IsOSError(body.exc))
        THEN Return(None)
        ELSE body

\* filepath = f'npp_installer_{arch}.exe'
filepath(a) == <<"npp_installer_">> \o a \o <<".exe">>

\* what the streamed download ends in: requests.get raises, raise_for_status
\* raises, open raises, copyfileobj raises while writing the file or while
\* reading r.raw (urllib3 raises its own ProtocolError there), or all is well
DownloadOutcomes ==
    {"ok", "ConnectionError", "HTTPError", "open:PermissionError",
     "write:OSError", "read:ProtocolError"}

\* get_installer from the download on: [out, files]
get_installer_download(a, fs, outcome) ==
    LET created == outcome \in {"ok", "write:OSError", "read:ProtocolError"}
        body == CASE outcome = "ok" -> Return(Some(filepath(a)))
                  [] outcome = "ConnectionError" -> Raise("ConnectionError")
                  [] outcome = "HTTPError" -> Raise("HTTPError")
                  [] outcome = "open:PermissionError" -> Raise("PermissionError")
                  [] outcome = "write:OSError" -> Raise("OSError")
                  [] outcome = "read:ProtocolError" -> Raise("ProtocolError")
    IN  [out |-> IF body.kind = "raise"
                    /\ (IsRequestException(body.exc) \/ IsOSError(body.exc))
                 THEN Return(None) ELSE body,
         files |-> IF created THEN fs \cup {filepath(a)} ELSE fs]

-----------------------------------------------------------------------------
(* run_installer *)

\* subprocess.run([path, "/S"], check = True): exit status zero, non-zero
\* exit status, or the process could not be started
ProcOutcomes == {"ok", "CalledProcessError", "OSError"}

\* "if os.path.exists(path): os.remove(path)"; ok says whether os.remove
\* succeeds when it is called
remove_if_exists(path, fs, ok) ==
    IF path \notin fs THEN [raised |-> FALSE, files |-> fs, removes |-> 0]
    ELSE IF ok THEN [raised |-> FALSE, files |-> fs \ {path}, removes |-> 1]
    ELSE [raised |-> TRUE, files |-> fs, removes |-> 1]

\* run_installer keeping the file when the installer exits non-zero
run_installer_keep_on_failure(path, fs, p, rm1, rm2) ==
    LET first == remove_if_exists(path, fs, rm1)
        second == remove_if_exists(path, first.files, rm2)
    IN  IF p = "CalledProcessError"
        THEN [out |-> Return(FALSE), files |-> fs, removes |-> 0]
        ELSE IF p = "ok" /\ first.raised
        THEN [out |-> IF second.raised THEN Raise("PermissionError")
                      ELSE Return(FALSE),
              files |-> second.files,
              removes |-> first.removes + second.removes]
        ELSE [out |-> IF first.raised THEN Raise("PermissionError")
                      ELSE Return(p = "ok"),
              files |-> first.files,
              removes |-> first.removes]

\* run_installer keeping the file when the installer cannot be started
run_installer_keep_on_launch_failure(path, fs, p, rm1, rm2) ==
    LET first == remove_if_exists(path, fs, rm1)
        second == remove_if_exists(path, first.files, rm2)
    IN  IF p = "OSError"
        THEN [out |-> Return(FALSE), files |-> fs, removes |-> 0]
        ELSE IF p = "ok" /\ first.raised
        THEN [out |-> IF second.raised THEN Raise("PermissionError")
                      ELSE Return(FALSE),
              files |-> second.files,
              removes |-> first.removes + second.removes]
        ELSE [out |-> IF first.raised THEN Raise("PermissionError")
                      ELSE Return(p = "ok"),
              files |-> first.files,
              removes |-> first.removes]

\* run_installer, given the outcome p of the installer process and of the
\* first and second call of os.remove: [out, files, removes].  An OSError of
\* os.remove in the try block is handled by "except OSError", which removes
\* again; an OSError of os.remove in a handler leaves run_installer
run_installer(path, fs, p, rm1, rm2) ==
    LET first == remove_if_exists(path, fs, rm1)
        second == remove_if_exists(path, first.files, rm2)
    IN  IF p = "ok" /\ first.raised
        THEN [out |-> IF second.raised THEN Raise("PermissionError")
                      ELSE Return(FALSE),
              files |-> second.files,
              removes |-> first.removes + second.removes]
        ELSE [out |-> IF first.raised THEN Raise("PermissionError")
                      ELSE Return(p = "ok"),
              files |-> first.files,
              removes |-> first.removes]

-----------------------------------------------------------------------------
(* main *)

Goto(stage) ==
    [pc |-> stage, status |-> "running", exit_code |-> -1, exception |-> ""]
Exit(code) ==
    [pc |-> "Done", status |-> "returned", exit_code |-> code, exception |-> ""]
Crash(e) ==
    [pc |-> "Done", status |-> "raised", exit_code |-> -1, exception |-> e]

\* the test after get_current_version with "and" for "or"
main_after_probe_and(cv, a) ==
    IF Falsy(cv) /\ Falsy(a) THEN Exit(2) ELSE Goto("CheckingLatest")

\* main, lines 219-221
main_after_probe(cv, a) ==
    IF Falsy(cv) \/ Falsy(a) THEN Exit(2) ELSE Goto("CheckingLatest")

\* main asking the feed again when get_latest_version returned None
main_after_latest_retry(lv) ==
    IF Falsy(lv) THEN Goto("CheckingLatest") ELSE Goto("Comparing")

\* main, lines 224-226
main_after_latest(lv) ==
    IF Falsy(lv) THEN Exit(3) ELSE Goto("Comparing")

\* the test on result with "<=" for "<"
main_after_compare_le(res) ==
    IF res <= 0 THEN Goto("Downloading") ELSE Exit(0)

\* main, lines 229 and 239-240
main_after_compare(res) ==
    IF res < 0 THEN Goto("Downloading") ELSE Exit(0)

\* main going on to run_installer without the test on installer
main_after_installer_unchecked(inst) == Goto("Installing")

\* main, lines 233-235
main_after_installer(inst) ==
    IF Falsy(inst) THEN Exit(4) ELSE Goto("Installing")

\* main, line 237
main_after_run(ok) == Exit(IF ok THEN 1 ELSE 5)

Apply(step) ==
    /\ pc' = step.pc
    /\ status' = step.status
    /\ exit_code' = step.exit_code
    /\ exception' = step.exception

Called(site, n) == calls' = [calls EXCEPT ![site] = @ + n]

\* how a feed request ended: "ok" or the name of the exception
Ended(res) == IF res.kind = "error" THEN res.exc ELSE "ok"

MainInit ==
    /\ pc = "CheckingInstalled"
    /\ status = "running"
    /\ exit_code = -1
    /\ exception = ""
    /\ current_version = None
    /\ arch = None
    /\ latest_version = None
    /\ result = None
    /\ assets = None
    /\ download_url = None
    /\ installer = None
    /\ succeed = None
    /\ files = {}
    /\ feed1 = "none"
    /\ feed2 = "none"
    /\ proc = "none"
    /\ calls = [probe |-> 0, feed_latest |-> 0, feed_assets |-> 0,
                download |-> 0, installer |-> 0, remove |-> 0]
    /\ feed_release = 1
    /\ release1 = 0
    /\ release2 = 0

\* compare_version is not called on its own
CompareIdle ==
    /\ va = <<>>
    /\ vb = <<>>
    /\ vres = None

\* get_current_version is not called on its own
ProbeIdle == registry = None

\* there is one run only
TwoIdle ==
    /\ run_pc = <<>>
    /\ artifact = None
    /\ events = {}

Init ==
    /\ MainInit
    /\ CompareIdle
    /\ ProbeIdle
    /\ TwoIdle

\* main, line 218: get_current_version() and the test on its result
GetCurrentVersion ==
    /\ pc = "CheckingInstalled"
    /\ \E reg \in Registries :
          LET r == get_current_version(reg)
          IN  /\ current_version' = r[1]
              /\ arch' = r[2]
              /\ Apply(main_after_probe(r[1], r[2]))
    /\ Called("probe", 1)
    /\ UNCHANGED <<latest_version, result, assets, download_url, installer,
                   succeed, files, feed1, feed2, proc, feed_release,
                   release1, release2, own_vars, two_vars>>

\* main, line 223: get_latest_version() and the test on its result
GetLatestVersion ==
    /\ pc = "CheckingLatest"
    /\ \E res \in FeedResponses :
          LET r == get_latest_version(res)
          IN  /\ feed1' = Ended(res)
              /\ release1' = IF res.kind = "ok" THEN feed_release ELSE 0
              /\ IF r.kind = "raise"
                 THEN /\ Apply(Crash(r.exc))
                      /\ UNCHANGED latest_version
                 ELSE /\ latest_version' = r.val
                      /\ Apply(main_after_latest(r.val))
    /\ Called("feed_latest", 1)
    /\ UNCHANGED <<current_version, arch, result, assets, download_url,
                   installer, succeed, files, feed2, proc, feed_release,
                   release2, own_vars, two_vars>>

\* main, line 228: compare_version() and the test on its result
CompareVersion ==
    /\ pc = "Comparing"
    /\ LET r == compare_version(current_version.val, latest_version.val)
       IN  IF r.kind = "raise"
           THEN /\ Apply(Crash(r.exc))
                /\ UNCHANGED result
           ELSE /\ result' = Some(r.val)
                /\ Apply(main_after_compare(r.val))
    /\ UNCHANGED <<current_version, arch, latest_version, assets,
                   download_url, installer, succeed, files, feed1, feed2,
                   proc, calls, feed_release, release1, release2, own_vars,
                   two_vars>>

\* main, line 231: get_installer(arch) up to the choice of download_url
GetInstallerSelect ==
    /\ pc = "Downloading"
    /\ \E res \in FeedResponses :
          LET r == get_installer_select(res, arch.val)
          IN  /\ feed2' = Ended(res)
              /\ release2' = IF res.kind = "ok" THEN feed_release ELSE 0
              /\ assets' = IF res.kind = "ok" THEN res.assets ELSE None
              /\ download_url' = IF res.kind = "ok" /\ res.assets # None
                                  THEN select(res.assets.val, arch.val)
                                  ELSE None
              /\ CASE r.kind = "continue" -> Apply(Goto("Streaming"))
                   [] r.kind = "return" -> Apply(main_after_installer(r.val))
                   [] r.kind = "raise" -> Apply(Crash(r.exc))
    /\ Called("feed_assets", 1)
    /\ UNCHANGED <<current_version, arch, latest_version, result, installer,
                   succeed, files, feed1, proc, feed_release, release1,
                   own_vars, two_vars>>

\* get_installer from line 157 on, and main's test on its result
GetInstallerDownload ==
    /\ pc = "Streaming"
    /\ \E outcome \in DownloadOutcomes :
          LET r == get_installer_download(arch.val, files, outcome)
          IN  /\ files' = r.files
              /\ IF r.out.kind = "raise"
                 THEN /\ Apply(Crash(r.out.exc))
                      /\ UNCHANGED installer
                 ELSE /\ installer' = r.out.val
                      /\ Apply(main_after_installer(r.out.val))
    /\ Called("download", 1)
    /\ UNCHANGED <<current_version, arch, latest_version, result, assets,
                   download_url, succeed, feed1, feed2, proc, feed_release,
                   release1, release2, own_vars, two_vars>>

\* main, lines 236-237: run_installer(installer) and the exit code
RunInstaller ==
    /\ pc = "Installing"
    /\ \E p \in ProcOutcomes, rm1 \in BOOLEAN, rm2 \in BOOLEAN :
          LET r == run_installer(installer.val, files, p, rm1, rm2)
          IN  /\ proc' = p
              /\ files' = r.files
              /\ calls' = [calls EXCEPT !.installer = @ + 1,
                                        !.remove = @ + r.removes]
              /\ IF r.out.kind = "raise"
                 THEN /\ Apply(Crash(r.out.exc))
                      /\ UNCHANGED succeed
                 ELSE /\ succeed' = Some(r.out.val)
                      /\ Apply(main_after_run(r.out.val))
    /\ UNCHANGED <<current_version, arch, latest_version, result, assets,
                   download_url, installer, feed1, feed2, feed_release,
                   release1, release2, own_vars, two_vars>>

\* the feed publishes a new release while main is running; the endpoint
\* .../releases/latest answers every request with the release that is the
\* latest at that moment
PublishRelease ==
    /\ status = "running"
    /\ feed_release < MaxReleases
    /\ feed_release' = feed_release + 1
    /\ UNCHANGED <<pc, status, exit_code, exception, current_version, arch,
                   latest_version, result, assets, download_url, installer,
                   succeed, files, feed1, feed2, proc, calls, release1,
                   release2, own_vars, two_vars>>

\* a step of main
MainStep ==
    \/ GetCurrentVersion
    \/ GetLatestVersion
    \/ CompareVersion
    \/ GetInstallerSelect
    \/ GetInstallerDownload
    \/ RunInstaller

Next ==
    \/ GetCurrentVersion
    \/ GetLatestVersion
    \/ CompareVersion
    \/ GetInstallerSelect
    \/ GetInstallerDownload
    \/ RunInstaller
    \/ PublishRelease

Spec == Init /\ [][Next]_vars

\* every call main makes returns or raises: main, single-threaded and
\* synchronous, takes its next step whenever it has one
FairSpec == Spec /\ WF_vars(MainStep)

-----------------------------------------------------------------------------
(* get_current_version called on its own, on every registry of Registries  *)

InitProbe ==
    /\ MainInit
    /\ CompareIdle
    /\ TwoIdle
    /\ registry \in {Some(reg) : reg \in Registries}

\* main, line 218, reading the registry of the state
CallGetCurrentVersion ==
    /\ pc = "CheckingInstalled"
    /\ registry # None
    /\ LET r == get_current_version(registry.val)
       IN  /\ current_version' = r[1]
           /\ arch' = r[2]
           /\ Apply(main_after_probe(r[1], r[2]))
    /\ Called("probe", 1)
    /\ UNCHANGED <<latest_version, result, assets, download_url, installer,
                   succeed, files, feed1, feed2, proc, feed_release,
                   release1, release2, own_vars, two_vars>>

NextProbe == CallGetCurrentVersion

SpecProbe == InitProbe /\ [][NextProbe]_vars

-----------------------------------------------------------------------------
(* compare_version called on its own, on every pair of strings over        *)
(* CompareChars of length at most MaxLen                                   *)

CompareChars == {"0", "1", "."}

\* the pairs of test_compare_version and of the specification's examples
CompareExamples ==
    { [a |-> <<"7", ".", "1", ".", "2">>, b |-> <<"8", ".", "6">>,
       expected |-> -1],
      [a |-> <<"8", ".", "9", ".", "4">>, b |-> <<"8", ".", "5">>,
       expected |-> 1],
      [a |-> <<"8", ".", "6", ".", "4">>, b |-> <<"8", ".", "6", ".", "4">>,
       expected |-> 0],
      [a |-> <<"8", ".", "6">>, b |-> <<"8", ".", "6", ".", "0">>,
       expected |-> 0] }

InitCompare ==
    /\ MainInit
    /\ ProbeIdle
    /\ TwoIdle
    /\ \/ /\ va \in StringsOver(CompareChars, MaxLen)
          /\ vb \in StringsOver(CompareChars, MaxLen)
       \/ \E e \in CompareExamples : va = e.a /\ vb = e.b
    /\ vres = None

CallCompareVersion ==
    /\ vres = None
    /\ vres' = Some(compare_version(va, vb))
    /\ UNCHANGED <<pc, status, exit_code, exception, current_version, arch,
                   latest_version, result, assets, download_url, installer,
                   succeed, files, feed1, feed2, proc, calls, va, vb,
                   registry, feed_release, release1, release2, two_vars>>

NextCompare == CallCompareVersion

SpecCompare == InitCompare /\ [][NextCompare]_vars

-----------------------------------------------------------------------------
(* Two runs of the program side by side, in one working directory and for  *)
(* one architecture: both use the path npp_installer_{arch}.exe.  Only the *)
(* steps that touch the file are told apart: open (line 162), copyfileobj  *)
(* and close (lines 163-164), subprocess.run (line 186) and os.remove      *)
(* (lines 188-189, 193-194, 198-199).  The file is None when it does not   *)
(* exist, else it names the run that wrote it last.  An operation Windows  *)
(* refuses raises OSError: writing or deleting a file that is being        *)
(* executed, executing or deleting a file another process holds open.      *)

Runs == {1, 2}

Other(r) == CHOOSE o \in Runs : o # r

\* what run r does to the file, and where the run that wrote it stands
Touch(r, op) ==
    IF artifact = None THEN events
    ELSE events \cup {[actor |-> r, op |-> op, writer |-> artifact.val,
                       writer_pc |-> run_pc[artifact.val]]}

InitTwo ==
    /\ MainInit
    /\ CompareIdle
    /\ ProbeIdle
    /\ run_pc = [r \in Runs |-> "Main"]
    /\ artifact = None
    /\ events = {}

TwoUnchanged ==
    UNCHANGED <<pc, status, exit_code, exception, current_version, arch,
                latest_version, result, assets, download_url, installer,
                succeed, files, feed1, feed2, proc, calls, feed_release,
                release1, release2, own_vars>>

\* main up to line 161: the run ends without a download (exit code 0, 2, 3
\* or 4), or it has an asset to stream
RunMain(r) ==
    /\ run_pc[r] = "Main"
    /\ \E next \in {"Open", "Done"} : run_pc' = [run_pc EXCEPT ![r] = next]
    /\ UNCHANGED <<artifact, events>>
    /\ TwoUnchanged

\* line 162: open(filepath, 'wb') creates the file or truncates the one
\* that is there; it raises while the other run's installer is executing it
RunOpen(r) ==
    /\ run_pc[r] = "Open"
    /\ IF artifact # None /\ run_pc[Other(r)] = "Wait"
       THEN /\ run_pc' = [run_pc EXCEPT ![r] = "Done"]
            /\ UNCHANGED <<artifact, events>>
       ELSE /\ run_pc' = [run_pc EXCEPT ![r] = "Copy"]
            /\ artifact' = Some(r)
            /\ events' = Touch(r, "overwrite")
    /\ TwoUnchanged

\* lines 163-164: copyfileobj writes the installer through the handle of
\* line 162, the file is closed and get_installer returns the path
RunCopy(r) ==
    /\ run_pc[r] = "Copy"
    /\ run_pc' = [run_pc EXCEPT ![r] = "Spawn"]
    /\ artifact' = IF artifact = None THEN artifact ELSE Some(r)
    /\ UNCHANGED events
    /\ TwoUnchanged

\* line 186: subprocess.run starts the file at the path; it raises OSError
\* when the file is gone or the other run holds it open for writing
RunSpawn(r) ==
    /\ run_pc[r] = "Spawn"
    /\ IF artifact = None \/ run_pc[Other(r)] = "Copy"
       THEN /\ run_pc' = [run_pc EXCEPT ![r] = "Remove"]
            /\ UNCHANGED events
       ELSE /\ run_pc' = [run_pc EXCEPT ![r] = "Wait"]
            /\ events' = Touch(r, "execute")
    /\ UNCHANGED artifact
    /\ TwoUnchanged

\* line 186: the installer process ends, with status zero or not
RunWait(r) ==
    /\ run_pc[r] = "Wait"
    /\ run_pc' = [run_pc EXCEPT ![r] = "Remove"]
    /\ UNCHANGED <<artifact, events>>
    /\ TwoUnchanged

\* lines 188-189, 193-194, 198-199: the file is removed if it exists;
\* os.remove raises while the other run executes the file or holds it open
RunRemove(r) ==
    /\ run_pc[r] = "Remove"
    /\ run_pc' = [run_pc EXCEPT ![r] = "Done"]
    /\ IF artifact = None \/ run_pc[Other(r)] \in {"Copy", "Wait"}
       THEN UNCHANGED <<artifact, events>>
       ELSE /\ artifact' = None
            /\ events' = Touch(r, "delete")
    /\ TwoUnchanged

NextTwo ==
    \E r \in Runs :
        \/ RunMain(r)
        \/ RunOpen(r)
        \/ RunCopy(r)
        \/ RunSpawn(r)
        \/ RunWait(r)
        \/ RunRemove(r)

SpecTwo == InitTwo /\ [][NextTwo]_vars

-----------------------------------------------------------------------------
(* Properties *)

NetworkCalls == calls.feed_latest + calls.feed_assets + calls.download

FeedFailed(f) == f \in FeedErrors

\* the selection rule as the specification words it
Eligible(name, a) ==
    \/ a = <<"x64">> /\ EndsWith(name, <<"x64", ".exe">>)
    \/ a = <<"x86">> /\ EndsWith(name, <<"Installer", ".exe">>)

EligibleIn(asset_list, a) ==
    {i \in 1..Len(asset_list) : Eligible(asset_list[i].name, a)}

FirstEligible(asset_list, a) ==
    CHOOSE i \in EligibleIn(asset_list, a) :
        \A j \in EligibleIn(asset_list, a) : i <= j

\* get_installer returned None at line 155 ("No suitable installer found")
NoMatchReturned ==
    /\ assets # None
    /\ status = "returned"
    /\ exit_code = 4
    /\ calls.download = 0

\* the probe has run and gave no version (None or "") or no architecture
ProbeNotInstalled ==
    calls.probe > 0 /\ (Falsy(current_version) \/ Falsy(arch))

\* C1: whenever the probe yields NotInstalled, main has returned 2 and no
\* feed request, no download and no installer invocation was made
C1_NotInstalledExits2 ==
    ProbeNotInstalled =>
        /\ pc = "Done"
        /\ status = "returned"
        /\ exit_code = 2
        /\ NetworkCalls = 0
        /\ calls.installer = 0

C1_Witness ==
    ProbeNotInstalled /\ exit_code = 2 /\ current_version = Some(<<>>)

\* C2: a run whose comparison is not LESS has returned 0 without selecting,
\* downloading, creating a file or installing; and whenever the asset
\* request, the download or the installer has started, or a file exists,
\* current < latest under compare_version
C2_NoUpdateUnlessOlder ==
    /\ (result # None /\ result.val >= 0) =>
          /\ pc = "Done"
          /\ status = "returned"
          /\ exit_code = 0
          /\ calls.feed_assets = 0
          /\ calls.download = 0
          /\ calls.installer = 0
          /\ download_url = None
          /\ files = {}
    /\ (calls.feed_assets > 0 \/ calls.download > 0 \/ calls.installer > 0
            \/ files # {}) =>
          compare_version(current_version.val, latest_version.val)
              = Return(-1)

C2_Witness ==
    /\ result = Some(0)
    /\ current_version = Some(<<"8", ".", "6">>)
    /\ latest_version = Some(<<"8", ".", "6", ".", "0">>)
    /\ exit_code = 0

\* C3: once run_installer has returned, main has returned 5 if it reported
\* failure and 1 if it reported success, the file at the path it was given
\* does not exist, and it reported failure whenever the installer process
\* exited non-zero or could not be launched
C3_InstallerExitAndCleanup ==
    succeed # None =>
        /\ pc = "Done"
        /\ status = "returned"
        /\ exit_code = (IF succeed.val THEN 1 ELSE 5)
        /\ installer.val \notin files
        /\ (proc \in {"CalledProcessError", "OSError"} => ~succeed.val)
        /\ (succeed.val => proc = "ok")

C3_Witness ==
    /\ succeed = Some(FALSE)
    /\ proc = "CalledProcessError"
    /\ calls.remove = 1
    /\ exit_code = 5

\* C4 as stated: whenever a feed request of the run failed, main returns 3,
\* no file is created and the installer is not invoked
C4_AnyFeedFailureExits3 ==
    (status # "running" /\ (FeedFailed(feed1) \/ FeedFailed(feed2))) =>
        /\ status = "returned"
        /\ exit_code = 3
        /\ files = {}
        /\ calls.installer = 0

\* C4 amended: when the feed request of get_latest_version fails main
\* returns 3, when the feed request of get_installer fails main returns 4;
\* in both cases nothing is downloaded, no file is created and the
\* installer is not invoked
C4_FeedFailureExits3Or4 ==
    /\ FeedFailed(feed1) =>
          /\ pc = "Done"
          /\ status = "returned"
          /\ exit_code = 3
          /\ calls.feed_assets = 0
    /\ FeedFailed(feed2) =>
          /\ pc = "Done"
          /\ status = "returned"
          /\ exit_code = 4
    /\ (FeedFailed(feed1) \/ FeedFailed(feed2)) =>
          /\ calls.download = 0
          /\ files = {}
          /\ calls.installer = 0

C4_Witness ==
    /\ feed1 = "ok"
    /\ feed2 = "JSONDecodeError"
    /\ exit_code = 4

\* C5: when the asset list read by get_installer holds no asset eligible for
\* the probed architecture, main has returned 4, nothing was downloaded, no
\* file was created and the installer was not invoked
C5_NoMatchExits4 ==
    (assets # None /\ EligibleIn(assets.val, arch.val) = {}) =>
        /\ result = Some(-1)
        /\ pc = "Done"
        /\ status = "returned"
        /\ exit_code = 4
        /\ calls.download = 0
        /\ files = {}
        /\ calls.installer = 0

C5_Witness ==
    /\ assets # None
    /\ Len(assets.val) = 2
    /\ EligibleIn(assets.val, arch.val) = {}
    /\ arch = Some(<<"x64">>)
    /\ \E i \in 1..2 : Eligible(assets.val[i].name, <<"x86">>)
    /\ exit_code = 4

\* C6 as stated: main always ends by returning a value in 0..5, no
\* exception leaves it
C6_NoUncaughtFault ==
    status # "running" => (status = "returned" /\ exit_code \in 0..5)

\* C7 as stated: when the installed version or the stripped tag is not a
\* version, main still returns a documented exit code, and nothing is
\* downloaded or installed
C7_MalformedVersionHandled ==
    (/\ pc = "Done"
     /\ ~Falsy(current_version)
     /\ ~Falsy(latest_version)
     /\ \/ parse(current_version.val).kind = "raise"
        \/ parse(latest_version.val).kind = "raise") =>
        /\ status = "returned"
        /\ exit_code \in 0..5
        /\ calls.download = 0
        /\ calls.installer = 0

\* a valid dotted-numeric string: non-empty runs of digits separated by
\* single dots
IsDottedNumeric(s) ==
    /\ s # <<>>
    /\ \A i \in 1..Len(s) : s[i] \in Digits \cup {"."}
    /\ s[1] # "." /\ s[Len(s)] # "."
    /\ \A i \in 1..(Len(s) - 1) : ~(s[i] = "." /\ s[i + 1] = ".")

\* the numeric components of a valid dotted-numeric string
Components(s) ==
    LET parts == Split(s) IN [i \in 1..Len(parts) |-> ParseInt(parts[i])]

PadTo(t, n) == [i \in 1..n |-> IF i <= Len(t) THEN t[i] ELSE 0]

\* comparison of the components left to right after zero-padding the
\* shorter sequence: -1 (LESS), 0 (EQUAL) or 1 (GREATER)
PaddedCompare(t1, t2) ==
    LET n == IF Len(t1) >= Len(t2) THEN Len(t1) ELSE Len(t2)
        p1 == PadTo(t1, n)
        p2 == PadTo(t2, n)
        differ == {i \in 1..n : p1[i] # p2[i]}
    IN  IF differ = {} THEN 0
        ELSE LET i == CHOOSE k \in differ : \A j \in differ : k <= j
             IN  IF p1[i] < p2[i] THEN -1 ELSE 1

\* C8: on valid dotted-numeric strings compare_version is the padded
\* numeric comparison, compare(a, a) = EQUAL, compare(a, b) = -compare(b, a),
\* and the four examples of the specification give LESS, GREATER, EQUAL
\* and EQUAL
C8_CompareIsPaddedNumeric ==
    (vres # None /\ IsDottedNumeric(va) /\ IsDottedNumeric(vb)) =>
        /\ vres.val = Return(PaddedCompare(Components(va), Components(vb)))
        /\ (va = vb => vres.val = Return(0))
        /\ compare_version(vb, va) = Return(0 - vres.val.val)
        /\ \A e \in CompareExamples :
              (va = e.a /\ vb = e.b) => vres.val = Return(e.expected)

C8_Witness ==
    /\ va = <<"1", ".", "1">>
    /\ vb = <<"1", ".", "1", ".", "0">>
    /\ vres = Some(Return(0))

\* C9 as stated: selection gives the download URL of the first eligible
\* asset, and get_installer returns at "No suitable installer found" exactly
\* when the list holds no eligible asset
C9_NoMatchIffNoneEligible ==
    assets # None =>
        LET el == EligibleIn(assets.val, arch.val)
        IN  /\ el = {} => download_url = None
            /\ el # {} =>
                  download_url =
                      Some(assets.val[FirstEligible(assets.val, arch.val)]
                               .browser_download_url)
            /\ NoMatchReturned <=> el = {}

\* C9 amended: selection gives the download URL of the first eligible asset
\* in list order, never that of an asset that is not eligible, and
\* get_installer returns at "No suitable installer found" exactly when the
\* list holds no eligible asset or the first eligible asset has an empty
\* download URL
C9_FirstEligibleSelected ==
    assets # None =>
        LET el == EligibleIn(assets.val, arch.val)
        IN  /\ el = {} => download_url = None
            /\ el # {} =>
                  download_url =
                      Some(assets.val[FirstEligible(assets.val, arch.val)]
                               .browser_download_url)
            /\ NoMatchReturned <=>
                  \/ el = {}
                  \/ assets.val[FirstEligible(assets.val, arch.val)]
                         .browser_download_url = <<>>

C9_Witness ==
    /\ assets # None
    /\ Len(assets.val) = 2
    /\ EligibleIn(assets.val, arch.val) = {1, 2}
    /\ assets.val[1].browser_download_url = <<"https://a">>
    /\ assets.val[2].browser_download_url = <<"https://b">>
    /\ download_url = Some(<<"https://a">>)
    /\ pc = "Streaming"

\* C10 as stated: the feed endpoint receives at most one request per run,
\* the asset download is requested at most once and the installer is
\* spawned at most once
C10_EachCallOnce ==
    /\ calls.feed_latest + calls.feed_assets <= 1
    /\ calls.download <= 1
    /\ calls.installer <= 1

\* C10 amended: no request is repeated; the feed endpoint receives at most
\* two requests per run, one from get_latest_version and, only when
\* current < latest, one from get_installer; the asset download is
\* requested at most once and the installer is spawned at most once
C10_NoCallRepeated ==
    /\ calls.feed_latest <= 1
    /\ calls.feed_assets <= 1
    /\ calls.feed_assets = 1 => (calls.feed_latest = 1 /\ result = Some(-1))
    /\ calls.download <= 1
    /\ calls.installer <= 1

C10_Witness ==
    /\ calls.feed_latest = 1
    /\ calls.feed_assets = 1
    /\ calls.download = 1
    /\ calls.installer = 1
    /\ pc = "Done"

\* the paths of a registry whose key has a DisplayName
Named(reg) ==
    {i \in 1..2 : reg[i] # None /\ reg[i].val.DisplayName # None}

\* the paths of a registry whose key has a DisplayName and a DisplayVersion
Complete(reg) ==
    {i \in Named(reg) : reg[i].val.DisplayVersion # None}

\* the architecture the display name of path i stands for
ArchAt(reg, i) ==
    IF \E k \in 1..Len(reg[i].val.DisplayName.val) :
           reg[i].val.DisplayName.val[k] = "x64"
    THEN <<"x64">> ELSE <<"x86">>

\* C11 as stated: when some path holds both fields the probe returns the
\* version and the architecture of such a path, and it returns NotInstalled
\* only if no path holds both fields
C11_AnyCompletePathFound ==
    (registry # None /\ calls.probe > 0) =>
        LET reg == registry.val
        IN  /\ Complete(reg) # {} =>
                  \E i \in Complete(reg) :
                      /\ current_version = reg[i].val.DisplayVersion
                      /\ arch = Some(ArchAt(reg, i))
            /\ (current_version = None /\ arch = None) => Complete(reg) = {}

\* C11 amended: the probe takes the first path in order that yields a
\* display name; it returns that path's version and the architecture of
\* that path's display name when that path also yields a display version,
\* and NotInstalled when no path yields a display name or that first path
\* yields no display version
C11_FirstNamedPathDecides ==
    (registry # None /\ calls.probe > 0) =>
        LET reg == registry.val
            first == CHOOSE i \in Named(reg) : \A j \in Named(reg) : i <= j
        IN  IF Named(reg) = {} \/ first \notin Complete(reg)
            THEN current_version = None /\ arch = None
            ELSE /\ current_version = reg[first].val.DisplayVersion
                 /\ arch = Some(ArchAt(reg, first))

C11_Witness ==
    /\ registry # None
    /\ calls.probe = 1
    /\ registry.val[1] # None
    /\ registry.val[1].val.DisplayName = None
    /\ Complete(registry.val) = {2}
    /\ current_version = Some(<<"8", ".", "6">>)
    /\ arch = Some(<<"x86">>)

\* C12 as stated: in every terminal state, whatever the exit code, no file
\* written by the run remains
C12_NoFileAtEnd ==
    pc = "Done" => files = {}

\* C12 amended: when main returns 0, 1, 2, 3 or 5 no file written by the run
\* remains; a file remains at the end only when the download failed after
\* the file was created (main returns 4, or the error of the stream leaves
\* main) or when os.remove failed in run_installer (its OSError leaves main)
C12_FileLeftOnlyByFailedDownloadOrRemove ==
    /\ (status = "returned" /\ exit_code \in {0, 1, 2, 3, 5}) => files = {}
    /\ (pc = "Done" /\ files # {}) =>
          /\ files = {filepath(arch.val)}
          /\ \/ /\ status = "returned"
                /\ exit_code = 4
                /\ calls.download = 1
                /\ calls.installer = 0
             \/ /\ status = "raised"
                /\ exception = "ProtocolError"
                /\ calls.installer = 0
             \/ /\ status = "raised"
                /\ exception = "PermissionError"
                /\ calls.installer = 1
                /\ calls.remove >= 1

C12_Witness ==
    /\ pc = "Done"
    /\ exit_code = 5
    /\ proc = "OSError"
    /\ calls.download = 1
    /\ calls.remove = 1
    /\ files = {}

\* the order of the stages of main
StageRank(stage) ==
    CASE stage = "CheckingInstalled" -> 1
      [] stage = "CheckingLatest" -> 2
      [] stage = "Comparing" -> 3
      [] stage = "Downloading" -> 4
      [] stage = "Streaming" -> 5
      [] stage = "Installing" -> 6
      [] stage = "Done" -> 7

\* each stage was entered at most once and only after the stage before it
\* succeeded, and the installer gets the path of this run's download
StagesInOrder ==
    /\ calls.probe <= 1
    /\ calls.feed_latest <= calls.probe
    /\ calls.feed_assets <= calls.feed_latest
    /\ calls.download <= calls.feed_assets
    /\ calls.installer <= calls.download
    /\ calls.feed_latest = 1 => (~Falsy(current_version) /\ ~Falsy(arch))
    /\ (pc = "Comparing" \/ result # None) =>
          (feed1 = "ok" /\ ~Falsy(latest_version))
    /\ calls.feed_assets = 1 => result = Some(-1)
    /\ calls.download = 1 => (feed2 = "ok" /\ ~Falsy(download_url))
    /\ pc = "Installing" =>
          /\ calls.download = 1
          /\ installer = Some(filepath(arch.val))
          /\ installer.val \in files
    /\ calls.installer = 1 => installer = Some(filepath(arch.val))

\* C13: the stages occur in the order probe, feed fetch, compare,
\* select/download, install; every step of main moves to a later stage, so
\* no stage is entered twice or revisited; a stage is entered only after the
\* one before it succeeded, and the installer is invoked only with the path
\* returned by the download of the same run
C13_StrictlyLinear ==
    /\ []StagesInOrder
    /\ [][(pc' # pc \/ calls' # calls) =>
             StageRank(pc') > StageRank(pc)]_vars

C13_Witness ==
    /\ pc = "Installing"
    /\ installer = Some(<<"npp_installer_", "x86", ".exe">>)
    /\ installer.val \in files
    /\ calls = [probe |-> 1, feed_latest |-> 1, feed_assets |-> 1,
                download |-> 1, installer |-> 0, remove |-> 0]

\* main has returned one of the six documented outcomes: UP_TO_DATE (0),
\* UPDATED (1), NOT_FOUND (2), FETCH_FAILED (3), DOWNLOAD_FAILED (4),
\* INSTALL_FAILED (5)
TerminalOutcome ==
    pc = "Done" /\ status = "returned" /\ exit_code \in 0..5

\* C14 as stated: when every external call returns a result or a failure,
\* every run eventually reaches one of the six terminal outcomes and stays
\* there
C14_ReachesTerminalOutcome ==
    <>[]TerminalOutcome

\* C15 as stated: in every run that downloads an asset, the asset list used
\* for the selection comes from the same release of the feed as the tag that
\* was compared with the current version
C15_AssetsOfComparedRelease ==
    calls.download > 0 => (release1 # 0 /\ release2 = release1)

\* C16 as stated: main returns 1 exactly when the installer process was
\* launched and exited with status zero, also when deleting the file
\* afterwards fails, and returns 5 only when the installer process could not
\* be launched or exited non-zero
C16_ExitOneIffInstallerSucceeded ==
    pc = "Done" =>
        /\ (status = "returned" /\ exit_code = 1) <=> proc = "ok"
        /\ exit_code = 5 => proc \in {"CalledProcessError", "OSError"}

\* C17 as stated: under any interleaving of two runs, no run overwrites,
\* executes or deletes a file that the other run wrote and has not yet
\* finished installing
C17_ArtifactExclusivelyOwned ==
    \A e \in events : e.writer = e.actor \/ e.writer_pc = "Done"

====
